---- MODULE Spec2Model ----
(***************************************************************************)
(* A model of pdf_table_new.py, a Streamlit script that extracts the       *)
(* tables of an uploaded PDF, lets the user select tables and export them. *)
(* Every user interaction re-runs the whole script from the top against    *)
(* st.session_state and the widgets' values; one action of the model is    *)
(* one interaction followed by that complete script run.                   *)
(***************************************************************************)
EXTENDS Integers, Sequences, FiniteSets, TLC

VARIABLES
    session_state,    \* st.session_state: keys present, pdf_data, selected_page, last_uploaded_filename
    uploaded_file,    \* value of st.file_uploader (line 37): whether it holds a file, and its name
    header_option,    \* value of st.radio (line 38)
    select_all,       \* value of st.checkbox "Select All Tables" (line 77)
    selected_labels,  \* value of st.multiselect, in the order the user picked (line 81)
    extraction,       \* what the last script run read and did in lines 47-69
    columns,          \* make_unique_columns: its argument
    seen,             \* make_unique_columns: the dict seen
    new_columns       \* make_unique_columns: the list new_columns

vars == <<session_state, uploaded_file, header_option, select_all,
          selected_labels, extraction, columns, seen, new_columns>>

appVars == <<session_state, uploaded_file, header_option, select_all,
             selected_labels, extraction>>

dedupVars == <<columns, seen, new_columns>>

----------------------------------------------------------------------------
(* Bounds and input sets *)

MaxCols == 4

MaxPages == 2

\* header strings offered to make_unique_columns: duplicates, the empty
\* string, and strings that already look like a suffixed repeat
Headers == {"A", "B", "", "A_1", "_1"}

RECURSIVE SeqsUpTo(_, _)
SeqsUpTo(S, n) ==
    IF n = 0 THEN {<<>>}
    ELSE LET shorter == SeqsUpTo(S, n - 1)
         IN  shorter \cup {Append(s, x) : s \in {t \in shorter : Len(t) = n - 1}, x \in S}

\* raw tables as page.extract_tables() returns them: a list of rows of cells
TableAB == << <<"A", "B">>, <<"1", "2">>, <<"3", "4">> >>

TableDup == << <<"A", "A", "A_1">>, <<"x", "y", "z">> >>

EmptyTable == <<>>

\* the tables of one page: one table, or an empty table followed by a table
\* whose header row repeats a name
PageSet == { <<TableAB>>, <<EmptyTable, TableDup>> }

Documents == SeqsUpTo(PageSet, MaxPages)

FileNames == {"a.pdf", "b.pdf"}

\* The uploader's value.  The bytes of the file are read in one place only,
\* pdfplumber.open in line 49, so the document is an input of the run that
\* extracts (see ReadsOfRun) and the uploader is its name.
NoFile == [present |-> FALSE, name |-> ""]

Files == [present : {TRUE}, name : FileNames]

HeaderOptions == {"All Pages", "Only First Page"}

----------------------------------------------------------------------------
(* make_unique_columns, lines 9-19 *)

EmptyDict == [c \in {} |-> 0]

\* a wrong loop body: the count of a repeated name starts at 1
LoopBodyCountFromOne(seen_, new_columns_, col) ==
    IF col \in DOMAIN seen_
    THEN [seen        |-> [seen_ EXCEPT ![col] = @ + 1],
          new_columns |-> Append(new_columns_, col \o "_" \o ToString(seen_[col] + 1))]
    ELSE [seen        |-> [c \in DOMAIN seen_ \cup {col} |-> IF c = col THEN 1 ELSE seen_[c]],
          new_columns |-> Append(new_columns_, col)]

\* one iteration of the for loop, lines 13-18
LoopBody(seen_, new_columns_, col) ==
    IF col \in DOMAIN seen_
    THEN [seen        |-> [seen_ EXCEPT ![col] = @ + 1],
          new_columns |-> Append(new_columns_, col \o "_" \o ToString(seen_[col] + 1))]
    ELSE [seen        |-> [c \in DOMAIN seen_ \cup {col} |-> IF c = col THEN 0 ELSE seen_[c]],
          new_columns |-> Append(new_columns_, col)]

RECURSIVE MakeUniqueFrom(_, _, _)
MakeUniqueFrom(cols, i, acc) ==
    IF i > Len(cols) THEN acc
    ELSE MakeUniqueFrom(cols, i + 1, LoopBody(acc.seen, acc.new_columns, cols[i]))

make_unique_columns(cols) ==
    MakeUniqueFrom(cols, 1, [seen |-> EmptyDict, new_columns |-> <<>>]).new_columns

----------------------------------------------------------------------------
(* PDF Processing, lines 41-69 *)

Resolution == 72

\* column labels of a DataFrame: names given by a header row, or the
\* positions 0..n-1 pandas gives when no columns are passed
NamedColumns(headers) == [i \in 1..Len(headers) |-> [name |-> headers[i]]]

PositionalColumns(n) == [i \in 1..n |-> [pos |-> i - 1]]

\* pd.DataFrame(data, columns=cols), lines 58 and 60
DataFrame(data, cols) == [columns |-> cols, data |-> data]

\* a wrong header decision: the page number is ignored
HeaderCapableAnyPage(option, page_num) ==
    option = "All Pages" \/ option = "Only First Page"

\* the condition of line 56
HeaderCapable(option, page_num) ==
    option = "All Pages" \/ (option = "Only First Page" /\ page_num = 0)

\* lines 56-60: the DataFrame of one non-empty raw table
TableFrame(table, option, page_num) ==
    IF HeaderCapable(option, page_num)
    THEN DataFrame(Tail(table), NamedColumns(make_unique_columns(table[1])))
    ELSE DataFrame(table, PositionalColumns(Len(table[1])))

\* line 61
Label(page_num, table_num) ==
    "Page " \o ToString(page_num + 1) \o " - Table " \o ToString(table_num + 1)

\* lines 53-62: the loop over enumerate(extracted_tables); table_num is 0-based
RECURSIVE PageTablesFrom(_, _, _, _, _)
PageTablesFrom(extracted_tables, option, page_num, table_num, page_tables) ==
    IF table_num >= Len(extracted_tables) THEN page_tables
    ELSE LET table == extracted_tables[table_num + 1]
         IN  PageTablesFrom(extracted_tables, option, page_num, table_num + 1,
                 IF table # <<>>
                 THEN Append(page_tables,
                             <<Label(page_num, table_num), TableFrame(table, option, page_num)>>)
                 ELSE page_tables)

\* lines 51-66: the value stored for one page
PageEntry(page, option, page_num) ==
    [image  |-> [resolution |-> Resolution],
     tables |-> PageTablesFrom(page, option, page_num, 0, <<>>)]

\* line 63: st.session_state.pdf_data[key] = entry
StorePage(pdf_data, key, entry) ==
    [k \in DOMAIN pdf_data \cup {key} |-> IF k = key THEN entry ELSE pdf_data[k]]

\* lines 50-66: the loop over enumerate(pdf.pages), run for the pages
\* page_num .. stored-1 (0-based); with stored = Len(doc) the loop completes
RECURSIVE ProcessPages(_, _, _, _, _)
ProcessPages(pdf_data, doc, option, page_num, stored) ==
    IF page_num >= stored THEN pdf_data
    ELSE ProcessPages(StorePage(pdf_data, page_num + 1, PageEntry(doc[page_num + 1], option, page_num)),
                      doc, option, page_num + 1, stored)

\* what the external PDF capability does with a document: it completes, or
\* it raises after `stored` pages have been stored (0: pdfplumber.open or the
\* first page raises; Len(doc): the error comes after the last page)
Outcomes(doc) ==
    {[raised |-> FALSE, stored |-> Len(doc)]}
        \cup {[raised |-> TRUE, stored |-> k] : k \in 0..Len(doc)}

\* The record of a run that did not extract.  For a run that did: the
\* document read, whether the capability raised and after how many stored
\* pages, whether the run replaced the results of a file of another name,
\* and the page that was selected then.
NoExtraction ==
    [triggered |-> FALSE, doc |-> <<>>, raised |-> FALSE, stored |-> 0,
     replaced |-> FALSE, prior_page |-> 0]

\* a wrong except branch: the pages stored so far are kept
ExceptBranchKeeps(pdf_data) == pdf_data

\* lines 67-69: st.error(...); st.session_state.pdf_data = {}
ExceptBranch(pdf_data) == <<>>

\* the state after st.session_state.clear(), line 23, and of a new session
Cleared ==
    [keys |-> {}, pdf_data |-> <<>>, selected_page |-> 0, last_uploaded_filename |-> ""]

\* a wrong guard: every run with a file extracts again
NeedsExtractionAlways(ss, name) == TRUE

\* the condition of line 42
NeedsExtraction(ss, name) ==
    "last_uploaded_filename" \notin ss.keys \/ ss.last_uploaded_filename # name

\* a wrong reset: the pages of the previous file are kept
ClearKeepingData(ss, name) ==
    [keys                   |-> ss.keys \cup {"pdf_data", "selected_page", "last_uploaded_filename"},
     pdf_data               |-> ss.pdf_data,
     selected_page          |-> 1,
     last_uploaded_filename |-> name]

\* a wrong reset: the selected page of the previous file is kept
ClearKeepingSelection(ss, name) ==
    [keys                   |-> ss.keys \cup {"pdf_data", "selected_page", "last_uploaded_filename"},
     pdf_data               |-> <<>>,
     selected_page          |-> IF "selected_page" \in ss.keys THEN ss.selected_page ELSE 1,
     last_uploaded_filename |-> name]

\* lines 43-45
ClearForNewFile(ss, name) ==
    [keys                   |-> ss.keys \cup {"pdf_data", "selected_page", "last_uploaded_filename"},
     pdf_data               |-> <<>>,
     selected_page          |-> 1,
     last_uploaded_filename |-> name]

\* lines 47-69: the try block, with the outcome of the external capability
TryExtract(ss, doc, option, outcome) ==
    LET stored == ProcessPages(ss.pdf_data, doc, option, 0, outcome.stored)
    IN  [ss EXCEPT !.pdf_data = IF outcome.raised THEN ExceptBranch(stored) ELSE stored]

\* lines 41-69; read is the document the run reads and the outcome of reading it
UploadStep(ss, file, option, read) ==
    IF file.present /\ NeedsExtraction(ss, file.name)
    THEN TryExtract(ClearForNewFile(ss, file.name), read.doc, option, read)
    ELSE ss

\* what a run can read: nothing unless it extracts, else any document with
\* any outcome of the external capability
ReadsOfRun(ss, file) ==
    IF file.present /\ NeedsExtraction(ss, file.name)
    THEN LET replaced == /\ "last_uploaded_filename" \in ss.keys
                         /\ ss.last_uploaded_filename # file.name
         IN  UNION {{[triggered  |-> TRUE, doc |-> d, raised |-> o.raised, stored |-> o.stored,
                      replaced   |-> replaced,
                      prior_page |-> IF replaced THEN ss.selected_page ELSE 0] :
                        o \in Outcomes(d)} : d \in Documents}
    ELSE {NoExtraction}

----------------------------------------------------------------------------
(* Table Selection and Export, lines 71-105 *)

\* the guard of lines 72 and 108
PanelsShown(ss) == "pdf_data" \in ss.keys /\ DOMAIN ss.pdf_data # {}

\* pdf_data.values() in the order of the keys (the order of insertion, as
\* the pages are stored in increasing page number into an emptied dict)
RECURSIVE PairsOfPages(_, _)
PairsOfPages(pdf_data, keys) ==
    IF keys = {} THEN <<>>
    ELSE LET first == CHOOSE k \in keys : \A j \in keys : k <= j
         IN  pdf_data[first].tables \o PairsOfPages(pdf_data, keys \ {first})

\* zip(table_labels, all_tables), lines 74-75: the (label, df) pairs of all pages
LabelledTables(ss) == PairsOfPages(ss.pdf_data, DOMAIN ss.pdf_data)

table_labels(ss) ==
    LET pairs == LabelledTables(ss) IN [i \in 1..Len(pairs) |-> pairs[i][1]]

all_tables(ss) ==
    LET pairs == LabelledTables(ss) IN [i \in 1..Len(pairs) |-> pairs[i][2]]

Range(f) == {f[i] : i \in DOMAIN f}

IsChosen(pair, chosen) == pair[1] \in Range(chosen)

\* lines 78-82: the selected (label, df) pairs; the code keeps the df only
SelectedPairs(ss, all, chosen) ==
    IF all THEN LabelledTables(ss)
    ELSE LET Chosen(pair) == IsChosen(pair, chosen)
         IN  SelectSeq(LabelledTables(ss), Chosen)

selected_tables(ss, all, chosen) ==
    LET pairs == SelectedPairs(ss, all, chosen) IN [i \in 1..Len(pairs) |-> pairs[i][2]]

(* pd.concat(frames, ignore_index=True), line 85: an outer join on the     *)
(* column labels.  Frames whose column indexes are all equal are stacked as *)
(* they are.  Otherwise the combined index is the union of the labels in    *)
(* order of first appearance and every frame is reindexed to it, its absent *)
(* columns filled with NaN; reindexing a frame whose own column labels      *)
(* repeat raises InvalidIndexError.                                         *)
NaN == [nan |-> TRUE]

Cell(value) == [value |-> value]

HasDuplicates(cols) == \E i, j \in 1..Len(cols) : i < j /\ cols[i] = cols[j]

SameColumns(frames) == \A i \in 1..Len(frames) : frames[i].columns = frames[1].columns

RECURSIVE UnionColumns(_, _, _)
UnionColumns(frames, i, acc) ==
    IF i > Len(frames) THEN acc
    ELSE LET IsNew(c) == c \notin Range(acc)
         IN  UnionColumns(frames, i + 1, acc \o SelectSeq(frames[i].columns, IsNew))

CombinedColumns(frames) ==
    IF SameColumns(frames) THEN frames[1].columns ELSE UnionColumns(frames, 1, <<>>)

ConcatRaises(frames) ==
    /\ frames # <<>>
    /\ ~SameColumns(frames)
    /\ \E i \in 1..Len(frames) : HasDuplicates(frames[i].columns)

Reindex(df, cols) ==
    [r \in 1..Len(df.data) |->
        [j \in 1..Len(cols) |->
            IF df.columns = cols THEN Cell(df.data[r][j])
            ELSE IF \E k \in 1..Len(df.columns) : df.columns[k] = cols[j]
                 THEN Cell(df.data[r][CHOOSE k \in 1..Len(df.columns) : df.columns[k] = cols[j]])
                 ELSE NaN]]

RECURSIVE StackRows(_, _, _)
StackRows(frames, cols, i) ==
    IF i > Len(frames) THEN <<>>
    ELSE Reindex(frames[i], cols) \o StackRows(frames, cols, i + 1)

Concat(frames) ==
    LET cols == CombinedColumns(frames)
    IN  [columns |-> cols, data |-> StackRows(frames, cols, 1)]

\* lines 99-104: one entry per (label, df) pair of all pages
ZipEntries(ss) ==
    LET pairs == LabelledTables(ss)
    IN  [i \in 1..Len(pairs) |-> [name |-> pairs[i][1] \o ".csv", data |-> pairs[i][2]]]

\* line 84: the guard of the whole export block, lines 85-105
ExportShown(ss, all, chosen) ==
    PanelsShown(ss) /\ selected_tables(ss, all, chosen) # <<>>

\* line 85 raises: the script run ends there with an uncaught exception
Crashed(ss, all, chosen) ==
    PanelsShown(ss) /\ ConcatRaises(selected_tables(ss, all, chosen))

\* the download buttons the run offers, by file_name: lines 91, 97, 105
Downloads(ss, all, chosen) ==
    IF ExportShown(ss, all, chosen) /\ ~Crashed(ss, all, chosen)
    THEN {"combined_table.csv", "combined_table.xlsx", "all_tables.zip"}
    ELSE {}

----------------------------------------------------------------------------
(* Page Viewer, lines 107-127 *)

ViewerShown(ss, all, chosen) == PanelsShown(ss) /\ ~Crashed(ss, all, chosen)

\* lines 115-117: the button "Page i" was clicked (0: no button was)
ClickStep(ss, clicked) ==
    IF clicked \in DOMAIN ss.pdf_data
    THEN [ss EXCEPT !.selected_page = clicked, !.keys = @ \cup {"selected_page"}]
    ELSE ss

\* line 121: st.session_state.get("selected_page", 1)
SelectedPageRead(ss) == IF "selected_page" \in ss.keys THEN ss.selected_page ELSE 1

----------------------------------------------------------------------------
(* One script run, lines 26-127, and the interactions that cause one *)

\* The values the two selection widgets hold after a run.  The checkbox and
\* the multiselect exist only while the panel is rendered, the multiselect
\* only while the checkbox is off (lines 77-81), and a multiselect over
\* other options is another widget, which starts empty.
SelectAllAfter(ss1, all) == all /\ PanelsShown(ss1)

ChosenAfter(ss0, ss1, all, chosen) ==
    IF PanelsShown(ss1) /\ ~all /\ table_labels(ss1) = table_labels(ss0)
    THEN chosen ELSE <<>>

ScriptRun(ss0, file, option, all, chosen, read, clicked) ==
    LET ss1     == UploadStep(ss0, file, option, read)
        all1    == SelectAllAfter(ss1, all)
        chosen1 == ChosenAfter(ss0, ss1, all, chosen)
        ss2     == IF ViewerShown(ss1, all1, chosen1) THEN ClickStep(ss1, clicked) ELSE ss1
    IN  [session_state |-> ss2, select_all |-> all1, selected_labels |-> chosen1]

\* the run caused by an interaction that left the widgets at (file, option,
\* all, chosen) and the session state at ss0
Rerun(ss0, file, option, all, chosen, clicked) ==
    \E read \in ReadsOfRun(ss0, file) :
        LET run == ScriptRun(ss0, file, option, all, chosen, read, clicked)
        IN  /\ session_state' = run.session_state
            /\ uploaded_file' = file
            /\ header_option' = option
            /\ select_all' = run.select_all
            /\ selected_labels' = run.selected_labels
            /\ extraction' = read
            /\ UNCHANGED dedupVars

\* the user puts a file into the uploader, line 37
UploadFile(file) ==
    Rerun(session_state, file, header_option, select_all, selected_labels, 0)

\* the user removes the file from the uploader
RemoveFile ==
    /\ uploaded_file.present
    /\ Rerun(session_state, NoFile, header_option, select_all, selected_labels, 0)

\* the user changes the radio, line 38
ChooseHeaderOption(option) ==
    /\ option # header_option
    /\ Rerun(session_state, uploaded_file, option, select_all, selected_labels, 0)

\* the user toggles the checkbox, line 77
ToggleSelectAll ==
    /\ PanelsShown(session_state)
    /\ Rerun(session_state, uploaded_file, header_option, ~select_all, <<>>, 0)

\* the user adds a label to the multiselect, line 81
PickLabel(label) ==
    /\ PanelsShown(session_state)
    /\ ~select_all
    /\ label \notin Range(selected_labels)
    /\ Rerun(session_state, uploaded_file, header_option, select_all,
             Append(selected_labels, label), 0)

\* the user removes a label from the multiselect, line 81
UnpickLabel(label) ==
    /\ PanelsShown(session_state)
    /\ ~select_all
    /\ LET Other(l) == l # label
       IN  Rerun(session_state, uploaded_file, header_option, select_all,
                 SelectSeq(selected_labels, Other), 0)

\* the user clicks the button "Page i", line 116
ClickPage(i) ==
    /\ ViewerShown(session_state, select_all, selected_labels)
    /\ Rerun(session_state, uploaded_file, header_option, select_all, selected_labels, i)

\* the user clicks "Reset App", lines 31-32: reset_app clears the session
\* state and reruns the script
reset_app ==
    Rerun(Cleared, uploaded_file, header_option, select_all, selected_labels, 0)

Init ==
    /\ session_state = Cleared
    /\ uploaded_file = NoFile
    /\ header_option = "All Pages"
    /\ select_all = FALSE
    /\ selected_labels = <<>>
    /\ extraction = NoExtraction
    /\ columns = <<>>
    /\ seen = EmptyDict
    /\ new_columns = <<>>

Next ==
    \/ \E file \in Files : UploadFile(file)
    \/ RemoveFile
    \/ \E option \in HeaderOptions : ChooseHeaderOption(option)
    \/ ToggleSelectAll
    \/ \E label \in Range(table_labels(session_state)) : PickLabel(label)
    \/ \E label \in Range(selected_labels) : UnpickLabel(label)
    \/ \E i \in DOMAIN session_state.pdf_data : ClickPage(i)
    \/ reset_app

Spec == Init /\ [][Next]_vars

----------------------------------------------------------------------------
(* make_unique_columns run one loop iteration at a time *)

InitDedup ==
    /\ session_state = Cleared
    /\ uploaded_file = NoFile
    /\ header_option = "All Pages"
    /\ select_all = FALSE
    /\ selected_labels = <<>>
    /\ extraction = NoExtraction
    /\ columns \in SeqsUpTo(Headers, MaxCols)
    /\ seen = EmptyDict
    /\ new_columns = <<>>

\* lines 12-18: the iteration for the next element of columns
LoopIteration ==
    /\ Len(new_columns) < Len(columns)
    /\ LET body == LoopBody(seen, new_columns, columns[Len(new_columns) + 1])
       IN  /\ seen' = body.seen
           /\ new_columns' = body.new_columns
    /\ UNCHANGED columns
    /\ UNCHANGED appVars

Returned == Len(new_columns) = Len(columns)

NextDedup == LoopIteration

SpecDedup == InitDedup /\ [][NextDedup]_vars

----------------------------------------------------------------------------
(* Properties of make_unique_columns, checked under SpecDedup *)

Distinct(s) == \A i, j \in 1..Len(s) : i < j => s[i] # s[j]

\* how often columns[i] occurs at the positions before i
EarlierCount(cols, i) == Cardinality({j \in 1..(i - 1) : cols[j] = cols[i]})

\* C1: for every input sequence of header strings, the returned sequence
\* has the length of the input and no two of its entries are equal.
C1_OutputDistinct ==
    Returned => Len(new_columns) = Len(columns) /\ Distinct(new_columns)

\* C2: every output position holds the input string unchanged when the
\* string does not occur at an earlier position, and "<string>_<n>" when it
\* occurs exactly n >= 1 times at earlier positions.
C2_SuffixIsEarlierCount ==
    \A i \in 1..Len(new_columns) :
        new_columns[i] =
            IF EarlierCount(columns, i) = 0 THEN columns[i]
            ELSE columns[i] \o "_" \o ToString(EarlierCount(columns, i))

C2_Witness ==
    /\ Returned
    /\ columns = <<"A", "B", "A", "A">>
    /\ new_columns = <<"A", "B", "A_1", "A_2">>

----------------------------------------------------------------------------
(* Properties of the script, checked under Spec *)

pdf_data == session_state.pdf_data

StoredName(ss, name) ==
    "last_uploaded_filename" \in ss.keys /\ ss.last_uploaded_filename = name

\* C3: a run that sees an uploaded file whose name is the stored
\* last_uploaded_filename does not extract and leaves the session state as
\* it was, whether the run comes from an upload or from a change of the
\* header option.
C3_SameNameUntouched ==
    [][\A file \in Files :
          (/\ StoredName(session_state, file.name)
           /\ \/ UploadFile(file)
              \/ uploaded_file = file /\ \E option \in HeaderOptions : ChooseHeaderOption(option))
          => session_state' = session_state /\ ~extraction'.triggered]_vars

\* a run has left the results alone although the header option is no longer
\* the one they were extracted with: page 2 has a table with named columns
\* under "Only First Page"
C3_Witness ==
    /\ uploaded_file.present
    /\ StoredName(session_state, uploaded_file.name)
    /\ ~extraction.triggered
    /\ header_option = "Only First Page"
    /\ 2 \in DOMAIN pdf_data
    /\ pdf_data[2].tables # <<>>
    /\ DOMAIN pdf_data[2].tables[1][2].columns[1] = {"name"}

\* the pages of a document under an option, each with its image and tables
PagesOf(doc, option) == [p \in 1..Len(doc) |-> PageEntry(doc[p], option, p - 1)]

\* C4: after the upload of a file whose name differs from the stored one,
\* pdf_data holds the pages of the new file and nothing else (nothing at all
\* when the extraction failed) and selected_page is 1.
C4_ReplacedByNewFile ==
    (extraction.triggered /\ extraction.replaced) =>
        /\ session_state.last_uploaded_filename = uploaded_file.name
        /\ "selected_page" \in session_state.keys
        /\ session_state.selected_page = 1
        /\ pdf_data = IF extraction.raised THEN <<>>
                      ELSE PagesOf(extraction.doc, header_option)

\* a file of another name was replaced while page 2 was selected, and the
\* new document has no table
C4_Witness ==
    /\ extraction.triggered
    /\ extraction.replaced
    /\ extraction.prior_page = 2
    /\ ~extraction.raised
    /\ table_labels(session_state) = <<>>

\* C5: after the external capability has raised, pdf_data is empty, whatever
\* was stored before the error, and neither panel is shown.
C5_FailureLeavesNoResult ==
    extraction.raised =>
        /\ "pdf_data" \in session_state.keys
        /\ pdf_data = <<>>
        /\ ~PanelsShown(session_state)
        /\ ~ViewerShown(session_state, select_all, selected_labels)
        /\ Downloads(session_state, select_all, selected_labels) = {}

\* the capability raised after a page with a table had been stored
C5_Witness ==
    /\ extraction.raised
    /\ extraction.stored >= 1
    /\ extraction.doc[1] = <<TableAB>>

\* C6: after an extraction failure the session state is that of a session
\* in which no file was processed: no results and no recorded
\* last_uploaded_filename.
C6_FailureRestoresPreUpload ==
    extraction.raised =>
        /\ pdf_data = <<>>
        /\ "last_uploaded_filename" \notin session_state.keys

\* C7: whenever at least one table has been extracted, the ZIP download is
\* offered and holds one entry "<label>.csv" per extracted table, for every
\* selection, the empty one included.
C7_ZipForEverySelection ==
    table_labels(session_state) # <<>> =>
        /\ "all_tables.zip" \in Downloads(session_state, select_all, selected_labels)
        /\ \A i \in 1..Len(table_labels(session_state)) :
              ZipEntries(session_state)[i].name = table_labels(session_state)[i] \o ".csv"
        /\ Len(ZipEntries(session_state)) = Len(table_labels(session_state))

\* the DataFrame stored in pdf_data for table t (1-based) of page p
FramesLabelled(p, t) ==
    {pair[2] : pair \in {q \in Range(pdf_data[p].tables) : q[1] = Label(p - 1, t - 1)}}

Promoted(df, table) ==
    /\ df.columns = NamedColumns(make_unique_columns(table[1]))
    /\ df.data = Tail(table)
    /\ Len(df.data) = Len(table) - 1

NotPromoted(df, table) ==
    /\ df.columns = PositionalColumns(Len(table[1]))
    /\ df.data = table

\* C8: after an extraction under "Only First Page" every non-empty table of
\* page 1 has its first row as (deduplicated) column names and no table of a
\* later page has; under "All Pages" every non-empty table of every page
\* has, and then has one data row fewer than raw rows.
C8_HeaderPromotion ==
    (extraction.triggered /\ ~extraction.raised) =>
        \A p \in 1..Len(extraction.doc) : \A t \in 1..Len(extraction.doc[p]) :
            LET table == extraction.doc[p][t]
            IN  table # <<>> =>
                    /\ Cardinality(FramesLabelled(p, t)) = 1
                    /\ \A df \in FramesLabelled(p, t) :
                          IF header_option = "All Pages" \/ p = 1
                          THEN Promoted(df, table)
                          ELSE NotPromoted(df, table)

C8_Witness ==
    /\ extraction.triggered
    /\ ~extraction.raised
    /\ header_option = "Only First Page"
    /\ extraction.doc = << <<TableAB>>, <<EmptyTable, TableDup>> >>
    /\ \A df \in FramesLabelled(2, 2) : NotPromoted(df, TableDup)
    /\ \A df \in FramesLabelled(1, 1) : Promoted(df, TableAB)

\* the (label, df) pairs of the labels the user holds selected, in the order
\* of extraction
RECURSIVE InLabelOrder(_, _, _)
InLabelOrder(pairs, i, labels) ==
    IF i > Len(pairs) THEN <<>>
    ELSE (IF pairs[i][1] \in labels THEN <<pairs[i]>> ELSE <<>>)
             \o InLabelOrder(pairs, i + 1, labels)

Selection ==
    InLabelOrder(LabelledTables(session_state), 1,
                 IF select_all THEN Range(table_labels(session_state))
                 ELSE Range(selected_labels))

\* the rows of the selected tables, table after table: (df, row number)
RECURSIVE RowsOf(_, _)
RowsOf(pairs, i) ==
    IF i > Len(pairs) THEN <<>>
    ELSE [r \in 1..Len(pairs[i][2].data) |-> [df |-> pairs[i][2], r |-> r]]
             \o RowsOf(pairs, i + 1)

\* row k of the combined table carries the cells of the source row under
\* the source's column labels
CarriesRow(combined, k, src) ==
    \A c \in 1..Len(src.df.columns) :
        \E j \in 1..Len(combined.columns) :
            /\ combined.columns[j] = src.df.columns[c]
            /\ combined.data[k][j] = Cell(src.df.data[src.r][c])

CombinedIsSelection ==
    LET combined == Concat(selected_tables(session_state, select_all, selected_labels))
        rows     == RowsOf(Selection, 1)
    IN  /\ Len(combined.data) = Len(rows)
        /\ \A k \in 1..Len(rows) : CarriesRow(combined, k, rows[k])

\* C9: for every non-empty selection the combined table is produced and
\* consists of the rows of the selected tables in extraction order, whatever
\* the order of picking; with nothing selected neither the combined CSV nor
\* the Excel file is offered.
C9_CombinedTable ==
    PanelsShown(session_state) =>
        IF Selection = <<>>
        THEN Downloads(session_state, select_all, selected_labels)
                 \cap {"combined_table.csv", "combined_table.xlsx"} = {}
        ELSE /\ {"combined_table.csv", "combined_table.xlsx"}
                    \subseteq Downloads(session_state, select_all, selected_labels)
             /\ CombinedIsSelection

\* C10: whenever the page viewer is rendered, the page it reads is a key of
\* pdf_data.
C10_SelectedPageIsKey ==
    ViewerShown(session_state, select_all, selected_labels) =>
        SelectedPageRead(session_state) \in DOMAIN pdf_data

\* a file of another name was replaced while page 2 was selected, and the
\* viewer shows the single page of the new document
C10_Witness ==
    /\ ViewerShown(session_state, select_all, selected_labels)
    /\ extraction.triggered
    /\ extraction.replaced
    /\ extraction.prior_page = 2
    /\ DOMAIN pdf_data = {1}

====
